---- MODULE Spec2Model ----
(***************************************************************************)
(* Model of one request to POST /process-video in src/app.py:             *)
(* process_video (ingest, remote upload, readiness polling, generation,   *)
(* browser agent) with its three nested exception handlers, and the       *)
(* polling function wait_for_file_processing it calls; beside it, one      *)
(* request to the same route of the other variant, src/main.py.            *)
(***************************************************************************)
EXTENDS Integers, Sequences, FiniteSets, TLC

\* ------------------------------------------------------------------------
\* Program constants
\* ------------------------------------------------------------------------
max_retries == 120

\* ------------------------------------------------------------------------
\* Values
\* ------------------------------------------------------------------------
\* States a File status can carry; UNKNOWN stands for any other value.
FileStates == {"PROCESSING", "ACTIVE", "FAILED", "UNKNOWN"}

NoResp == [kind |-> "none", state |-> "-", error |-> FALSE]

RaisedResp == [kind |-> "raise", state |-> "-", error |-> FALSE]

\* What one client.files.get call can produce: an exception, or a status
\* object with a state and a (truthy or absent/falsy) error attribute.
Responses ==
  {RaisedResp} \cup [kind : {"ok"}, state : FileStates, error : BOOLEAN]

HTTPException(code) == [cls |-> "HTTPException", status |-> code]

Error(c) == [cls |-> c, status |-> 0]

\* `except Exception` catches every exception raised in the handler body;
\* fastapi.HTTPException is itself a subclass of Exception.
IsException(e) == e.cls \in {"Exception", "FileNotFoundError", "HTTPException"}

\* ------------------------------------------------------------------------
\* Pure parts of the code
\* ------------------------------------------------------------------------
os_unlink_Skipped(exists) == [raised |-> FALSE, exists |-> exists]

\* os.unlink(path): removes an existing file, raises FileNotFoundError on an
\* absent one.
os_unlink(exists) == [raised |-> ~exists, exists |-> FALSE]

\* except Exception as gen_error (lines 190-197): re-raises as a 400.
GenExcept(e) == IF IsException(e) THEN HTTPException(400) ELSE e

\* except Exception as e (lines 199-205): unlink, then re-raise as a 400;
\* a failing unlink escapes the handler instead.
UploadExcept(e, exists) ==
  IF IsException(e)
  THEN LET u == os_unlink(exists)
       IN [exc |-> IF u.raised THEN Error("FileNotFoundError")
                   ELSE HTTPException(400),
           exists |-> IF u.raised THEN exists ELSE u.exists,
           unlinks |-> 1,
           unlinkRaised |-> u.raised]
  ELSE [exc |-> e, exists |-> exists, unlinks |-> 0, unlinkRaised |-> FALSE]

OuterExcept_WrongCode(e) == IF IsException(e) THEN HTTPException(400) ELSE e

\* except Exception as e (lines 207-211): re-raises as a 500.
OuterExcept(e) == IF IsException(e) THEN HTTPException(500) ELSE e

\* The status code of the response FastAPI builds from the escaping exception.
ResponseStatus(e) == IF e.cls = "HTTPException" THEN e.status ELSE 500

\* Initial lookup (lines 50-63): "continue" into the loop or "false".
InitialOutcome(r) ==
  IF r.kind = "raise" THEN "false"
  ELSE IF r.error THEN "false"
  ELSE "continue"

LoopOutcome_FailedContinues(r) ==
  IF r.kind = "raise" THEN "sleep"
  ELSE IF r.error THEN "false"
  ELSE IF r.state = "ACTIVE" THEN "true"
  ELSE "sleep"

LoopOutcome_ActiveMissed(r) ==
  IF r.kind = "raise" THEN "sleep"
  ELSE IF r.error THEN "false"
  ELSE IF r.state = "FAILED" THEN "false"
  ELSE "sleep"

LoopOutcome_RaiseAborts(r) ==
  IF r.kind = "raise" THEN "false"
  ELSE IF r.error THEN "false"
  ELSE IF r.state = "ACTIVE" THEN "true"
  ELSE IF r.state = "FAILED" THEN "false"
  ELSE "sleep"

LoopOutcome_UnknownFatal(r) ==
  IF r.kind = "raise" THEN "sleep"
  ELSE IF r.error THEN "false"
  ELSE IF r.state = "ACTIVE" THEN "true"
  ELSE IF r.state = "FAILED" THEN "false"
  ELSE IF r.state = "PROCESSING" THEN "sleep"
  ELSE "false"

LoopOutcome_NotProcessingIsReady(r) ==
  IF r.kind = "raise" THEN "sleep"
  ELSE IF r.error THEN "false"
  ELSE IF r.state = "FAILED" THEN "false"
  ELSE IF r.state = "PROCESSING" THEN "sleep"
  ELSE "true"

\* One loop attempt (lines 66-102): "true", "false", or "sleep" and go on.
LoopOutcome(r) ==
  IF r.kind = "raise" THEN "sleep"
  ELSE IF r.error THEN "false"
  ELSE IF r.state = "ACTIVE" THEN "true"
  ELSE IF r.state = "FAILED" THEN "false"
  ELSE "sleep"

LoopContinues_OffByOne(a) == a <= max_retries

\* for attempt in range(max_retries) (line 65)
LoopContinues(a) == a < max_retries

HasNameAttr_Unchecked(named) == TRUE

\* hasattr(file, 'name') (line 45)
HasNameAttr(named) == named

ProceedAfterWait_Ignored(ready) == TRUE

\* if not wait_for_file_processing(file): raise ... (lines 151-155)
ProceedAfterWait(ready) == ready

\* ------------------------------------------------------------------------
\* State
\* ------------------------------------------------------------------------
VARIABLES
  pc,            \* position of the request in process_video
  fileExists,    \* the temporary file is on the filesystem
  fileCreated,   \* NamedTemporaryFile created the file in this request
  pathAssigned,  \* temp_file_path has been assigned
  status,        \* HTTP status of the response, 0 while none
  fault,         \* the stage whose failure ended the request, or "none"
  stages,        \* the external stages invoked so far, in order
  genOk,         \* generate_content returned successfully
  unlinkCalls,   \* number of os.unlink calls
  unlinkRaised,  \* an os.unlink call raised
  hasName,       \* the uploaded file object has a 'name' attribute
  attempt,       \* loop variable of wait_for_file_processing
  queries,       \* client.files.get calls issued by the call
  sleeps,        \* time.sleep calls made by the call
  lastResp,      \* result of the latest client.files.get
  waitReturned,  \* wait_for_file_processing has returned
  waitResult,    \* its return value
  procOnly,      \* every query so far reported PROCESSING without error
  firstActiveQ,  \* N when query N was first to report ACTIVE after only
                 \* PROCESSING reports, else 0
  raisedLoop,    \* some loop-attempt lookup raised
  mpc,           \* main.py: position of the request in process_video
  mFileExists,   \* main.py: the temporary file is on the filesystem
  mFileCreated,  \* main.py: NamedTemporaryFile created the file
  mStatus,       \* main.py: HTTP status of the response, 0 while none
  mFault         \* main.py: the stage whose failure ended the request

vars == <<pc, fileExists, fileCreated, pathAssigned, status, fault, stages,
          genOk, unlinkCalls, unlinkRaised, hasName, attempt, queries,
          sleeps, lastResp, waitReturned, waitResult, procOnly,
          firstActiveQ, raisedLoop, mpc, mFileExists, mFileCreated, mStatus,
          mFault>>

mainVars == <<mpc, mFileExists, mFileCreated, mStatus, mFault>>

appVars == <<pc, fileExists, fileCreated, pathAssigned, status, fault, stages,
             genOk, unlinkCalls, unlinkRaised, hasName, attempt, queries,
             sleeps, lastResp, waitReturned, waitResult, procOnly,
             firstActiveQ, raisedLoop>>

fsVars == <<fileExists, fileCreated, pathAssigned, unlinkCalls, unlinkRaised>>

waitVars == <<hasName, attempt, queries, sleeps, lastResp, waitReturned,
              waitResult, procOnly, firstActiveQ, raisedLoop>>

Init ==
  /\ pc = "received"
  /\ fileExists = FALSE
  /\ fileCreated = FALSE
  /\ pathAssigned = FALSE
  /\ status = 0
  /\ fault = "none"
  /\ stages = <<>>
  /\ genOk = FALSE
  /\ unlinkCalls = 0
  /\ unlinkRaised = FALSE
  /\ hasName = FALSE
  /\ attempt = 0
  /\ queries = 0
  /\ sleeps = 0
  /\ lastResp = NoResp
  /\ waitReturned = FALSE
  /\ waitResult = FALSE
  /\ procOnly = TRUE
  /\ firstActiveQ = 0
  /\ raisedLoop = FALSE
  /\ mpc = "received"
  /\ mFileExists = FALSE
  /\ mFileCreated = FALSE
  /\ mStatus = 0
  /\ mFault = "none"

\* ------------------------------------------------------------------------
\* Exception propagation out of process_video
\* ------------------------------------------------------------------------
\* An exception raised directly under the outer try (lines 118-131).
FailOuter(e, stage) ==
  /\ pc' = "responded"
  /\ status' = ResponseStatus(OuterExcept(e))
  /\ fault' = stage

\* An exception raised under the upload try (lines 134-197): through the
\* handler of line 199, whose own raise is under the outer try.
FailUpload(e, stage) ==
  LET h == UploadExcept(e, fileExists)
  IN /\ pc' = "responded"
     /\ status' = ResponseStatus(OuterExcept(h.exc))
     /\ fault' = stage
     /\ fileExists' = h.exists
     /\ unlinkCalls' = unlinkCalls + h.unlinks
     /\ unlinkRaised' = (unlinkRaised \/ h.unlinkRaised)

\* ------------------------------------------------------------------------
\* process_video
\* ------------------------------------------------------------------------
\* Lines 124-131: create the temporary file, read the upload, write it.
Ingest ==
  /\ pc = "received"
  /\ stages' = Append(stages, "ingest")
  /\ \E outcome \in {"ok", "create_fail", "io_fail"} :
       CASE outcome = "ok" ->
              /\ fileExists' = TRUE
              /\ fileCreated' = TRUE
              /\ pathAssigned' = TRUE
              /\ pc' = "upload"
              /\ UNCHANGED <<status, fault>>
         [] outcome = "create_fail" ->
              /\ FailOuter(Error("Exception"), "create")
              /\ UNCHANGED <<fileExists, fileCreated, pathAssigned>>
         [] outcome = "io_fail" ->
              \* delete=False: leaving the with block keeps the file
              /\ fileExists' = TRUE
              /\ fileCreated' = TRUE
              /\ FailOuter(Error("Exception"), "io")
              /\ UNCHANGED pathAssigned
  /\ UNCHANGED <<genOk, unlinkCalls, unlinkRaised>>
  /\ UNCHANGED waitVars
  /\ UNCHANGED mainVars

\* Lines 134-148: existence check, getsize, client.files.upload.
Upload ==
  /\ pc = "upload"
  /\ stages' = Append(stages, "upload")
  /\ \E ok \in BOOLEAN, name \in BOOLEAN :
       IF ok /\ fileExists
       THEN /\ pc' = "wait_start"
            /\ hasName' = name
            /\ UNCHANGED <<status, fault, fileExists, unlinkCalls,
                           unlinkRaised>>
       ELSE /\ FailUpload(Error("Exception"), "upload")
            /\ UNCHANGED hasName
  /\ UNCHANGED <<fileCreated, pathAssigned, genOk, attempt, queries, sleeps,
                 lastResp, waitReturned, waitResult, procOnly, firstActiveQ,
                 raisedLoop>>
  /\ UNCHANGED mainVars

\* ------------------------------------------------------------------------
\* wait_for_file_processing
\* ------------------------------------------------------------------------
WaitReturn(value) ==
  /\ pc' = "wait_returned"
  /\ waitReturned' = TRUE
  /\ waitResult' = value

\* Bookkeeping of one client.files.get call that produced r.
Query(r) ==
  /\ queries' = queries + 1
  /\ lastResp' = r
  /\ procOnly' = (procOnly /\ r.kind = "ok" /\ r.state = "PROCESSING"
                   /\ ~r.error)
  /\ firstActiveQ' = IF firstActiveQ = 0 /\ procOnly /\ r.kind = "ok"
                        /\ r.state = "ACTIVE"
                     THEN queries + 1
                     ELSE firstActiveQ

\* Lines 44-47: the call starts; a handle without 'name' returns False.
WaitStart ==
  /\ pc = "wait_start"
  /\ stages' = Append(stages, "wait")
  /\ IF HasNameAttr(hasName)
     THEN /\ pc' = "wait_initial"
          /\ UNCHANGED <<waitReturned, waitResult>>
     ELSE WaitReturn(FALSE)
  /\ UNCHANGED <<status, fault, genOk, hasName, attempt, queries, sleeps,
                 lastResp, procOnly, firstActiveQ, raisedLoop>>
  /\ UNCHANGED fsVars
  /\ UNCHANGED mainVars

\* Lines 49-63: the initial status lookup.
WaitInitial ==
  /\ pc = "wait_initial"
  /\ \E r \in Responses :
       /\ Query(r)
       /\ IF InitialOutcome(r) = "continue"
          THEN IF LoopContinues(attempt)
               THEN /\ pc' = "wait_loop"
                    /\ UNCHANGED <<waitReturned, waitResult>>
               ELSE WaitReturn(FALSE)
          ELSE WaitReturn(FALSE)
  /\ UNCHANGED <<status, fault, stages, genOk, hasName, attempt, sleeps,
                 raisedLoop>>
  /\ UNCHANGED fsVars
  /\ UNCHANGED mainVars

\* Lines 66-96 and 98-101: one loop attempt up to its sleep.
WaitLoop ==
  /\ pc = "wait_loop"
  /\ \E r \in Responses :
       /\ Query(r)
       /\ raisedLoop' = (raisedLoop \/ r.kind = "raise")
       /\ CASE LoopOutcome(r) = "true" -> WaitReturn(TRUE)
            [] LoopOutcome(r) = "false" -> WaitReturn(FALSE)
            [] OTHER -> /\ pc' = "wait_sleep"
                        /\ UNCHANGED <<waitReturned, waitResult>>
  /\ UNCHANGED <<status, fault, stages, genOk, hasName, attempt, sleeps>>
  /\ UNCHANGED fsVars
  /\ UNCHANGED mainVars

\* Lines 97 and 102, then the for statement: sleep, advance, and either
\* start the next attempt or fall out of the loop (lines 104-106).
WaitSleep ==
  /\ pc = "wait_sleep"
  /\ sleeps' = sleeps + 1
  /\ attempt' = attempt + 1
  /\ IF LoopContinues(attempt + 1)
     THEN /\ pc' = "wait_loop"
          /\ UNCHANGED <<waitReturned, waitResult>>
     ELSE WaitReturn(FALSE)
  /\ UNCHANGED <<status, fault, stages, genOk, hasName, queries, lastResp,
                 procOnly, firstActiveQ, raisedLoop>>
  /\ UNCHANGED fsVars
  /\ UNCHANGED mainVars

\* ------------------------------------------------------------------------
\* process_video, continued
\* ------------------------------------------------------------------------
\* Lines 151-155: the caller's test of the poller's result.
CheckReady ==
  /\ pc = "wait_returned"
  /\ IF ProceedAfterWait(waitResult)
     THEN /\ pc' = "generate"
          /\ UNCHANGED <<status, fault, fileExists, unlinkCalls, unlinkRaised>>
     ELSE FailUpload(HTTPException(400), "timeout")
  /\ UNCHANGED <<fileCreated, pathAssigned, stages, genOk>>
  /\ UNCHANGED waitVars
  /\ UNCHANGED mainVars

\* Lines 170-179: generate_content, then os.unlink of the temporary file.
GenerateContent ==
  /\ pc = "generate"
  /\ stages' = Append(stages, "generate")
  /\ \E ok \in BOOLEAN :
       IF ok
       THEN LET u == os_unlink(fileExists)
                h == UploadExcept(GenExcept(Error("FileNotFoundError")),
                                  fileExists)
            IN /\ genOk' = TRUE
               /\ IF u.raised
                  THEN /\ pc' = "responded"
                       /\ status' = ResponseStatus(OuterExcept(h.exc))
                       /\ fault' = "unlink"
                       /\ fileExists' = h.exists
                       /\ unlinkCalls' = unlinkCalls + 1 + h.unlinks
                       /\ unlinkRaised' = TRUE
                  ELSE /\ pc' = "agent"
                       /\ fileExists' = u.exists
                       /\ unlinkCalls' = unlinkCalls + 1
                       /\ UNCHANGED <<status, fault, unlinkRaised>>
       ELSE /\ FailUpload(GenExcept(Error("Exception")), "generate")
            /\ UNCHANGED genOk
  /\ UNCHANGED <<fileCreated, pathAssigned>>
  /\ UNCHANGED waitVars
  /\ UNCHANGED mainVars

\* Lines 181-188 and 108-114: run the browser agent and answer.
RunBrowserAgent ==
  /\ pc = "agent"
  /\ stages' = Append(stages, "agent")
  /\ \E ok \in BOOLEAN :
       IF ok
       THEN /\ pc' = "responded"
            /\ status' = 200
            /\ UNCHANGED <<fault, fileExists, unlinkCalls, unlinkRaised>>
       ELSE FailUpload(GenExcept(Error("Exception")), "agent")
  /\ UNCHANGED <<fileCreated, pathAssigned, genOk>>
  /\ UNCHANGED waitVars
  /\ UNCHANGED mainVars

\* ------------------------------------------------------------------------
\* process_video of src/main.py
\* ------------------------------------------------------------------------
\* except Exception as e (main.py lines 70-71): re-raises as a 500.
MainExcept(e) == IF IsException(e) THEN HTTPException(500) ELSE e

MainFail(e, stage) ==
  /\ mpc' = "responded"
  /\ mStatus' = ResponseStatus(MainExcept(e))
  /\ mFault' = stage

\* main.py lines 41-44: create the temporary file, read the upload, write it.
MainIngest ==
  /\ mpc = "received"
  /\ \E outcome \in {"ok", "create_fail", "io_fail"} :
       CASE outcome = "ok" ->
              /\ mFileExists' = TRUE
              /\ mFileCreated' = TRUE
              /\ mpc' = "generate"
              /\ UNCHANGED <<mStatus, mFault>>
         [] outcome = "create_fail" ->
              /\ MainFail(Error("Exception"), "create")
              /\ UNCHANGED <<mFileExists, mFileCreated>>
         [] outcome = "io_fail" ->
              /\ mFileExists' = TRUE
              /\ mFileCreated' = TRUE
              /\ MainFail(Error("Exception"), "io")
  /\ UNCHANGED appVars

\* main.py lines 55-59: model.generate_content, response.text, os.unlink.
MainGenerateContent ==
  /\ mpc = "generate"
  /\ \E ok \in BOOLEAN :
       IF ok
       THEN LET u == os_unlink(mFileExists)
            IN IF u.raised
               THEN /\ MainFail(Error("FileNotFoundError"), "unlink")
                    /\ UNCHANGED mFileExists
               ELSE /\ mpc' = "execute"
                    /\ mFileExists' = u.exists
                    /\ UNCHANGED <<mStatus, mFault>>
       ELSE /\ MainFail(Error("Exception"), "generate")
            /\ UNCHANGED mFileExists
  /\ UNCHANGED mFileCreated
  /\ UNCHANGED appVars

\* main.py lines 61-68: BrowserUse().execute(task_prompt) and the response.
MainExecute ==
  /\ mpc = "execute"
  /\ \E ok \in BOOLEAN :
       IF ok
       THEN /\ mpc' = "responded"
            /\ mStatus' = 200
            /\ UNCHANGED mFault
       ELSE MainFail(Error("Exception"), "execute")
  /\ UNCHANGED <<mFileExists, mFileCreated>>
  /\ UNCHANGED appVars

Next ==
  \/ Ingest
  \/ Upload
  \/ WaitStart
  \/ WaitInitial
  \/ WaitLoop
  \/ WaitSleep
  \/ CheckReady
  \/ GenerateContent
  \/ RunBrowserAgent
  \/ MainIngest
  \/ MainGenerateContent
  \/ MainExecute

Spec == Init /\ [][Next]_vars

\* The steps of the app.py request.
AppStep ==
  \/ Ingest
  \/ Upload
  \/ WaitStart
  \/ WaitInitial
  \/ WaitLoop
  \/ WaitSleep
  \/ CheckReady
  \/ GenerateContent
  \/ RunBrowserAgent

\* The request handler runs on: every external call returns or raises and
\* every time.sleep(retry_delay) ends, so a step that can be taken is taken.
FairSpec == Spec /\ WF_vars(AppStep)

\* ------------------------------------------------------------------------
\* Type invariant
\* ------------------------------------------------------------------------
TypeOK ==
  /\ pc \in {"received", "upload", "wait_start", "wait_initial", "wait_loop",
             "wait_sleep", "wait_returned", "generate", "agent", "responded"}
  /\ status \in {0, 200, 400, 500}
  /\ attempt \in 0..(max_retries + 1)
  /\ queries \in 0..(max_retries + 2)
  /\ sleeps \in 0..(max_retries + 1)
  /\ lastResp \in Responses \cup {NoResp}
  /\ unlinkCalls \in 0..2
  /\ mpc \in {"received", "generate", "execute", "responded"}
  /\ mStatus \in {0, 200, 500}

\* ------------------------------------------------------------------------
\* Claims
\* ------------------------------------------------------------------------
ClientError == 400..499

ServerError == 500..599

\* C1: a request whose upload succeeded and whose readiness poll returned
\* False ends with a 400-class response.
C1_PollTimeoutIs400 ==
  (pc = "responded" /\ fault = "timeout" /\ hasName /\ queries >= 2) =>
     status \in ClientError

\* C2: on every exit path taken after the temporary file was created, the
\* file is absent when the request terminates.
C2_TempFileRemoved ==
  (pc = "responded" /\ fileCreated) => ~fileExists

\* C3: a request whose asset became ready and whose generate_content call
\* raised ends with a 400-class response.
C3_GenerationErrorIs400 ==
  (pc = "responded" /\ fault = "generate") => status \in ClientError

\* C4: once a loop attempt has observed FAILED the call has returned False
\* at that attempt: the FAILED lookup stays the last query and every sleep
\* made belongs to an earlier attempt.
C4_FailedStopsPolling ==
  (lastResp.kind = "ok" /\ lastResp.state = "FAILED" /\ queries >= 2) =>
     /\ waitReturned
     /\ ~waitResult
     /\ sleeps = queries - 2
     /\ attempt = queries - 2

C4_Witness ==
  /\ lastResp.kind = "ok" /\ lastResp.state = "FAILED" /\ ~lastResp.error
  /\ queries >= 3
  /\ attempt < max_retries - 1
  /\ waitReturned

\* C5 as stated: ACTIVE first reported at the N-th query of the call
\* (N <= max_retries), PROCESSING on all earlier ones: the call returns True
\* having issued exactly N queries.
C5_ExactlyNQueries ==
  (firstActiveQ # 0 /\ firstActiveQ <= max_retries /\ waitReturned) =>
     (waitResult /\ queries = firstActiveQ)

\* C5 amended: when ACTIVE without error is first reported at the N-th query
\* with N >= 2 (a loop attempt), PROCESSING on all earlier ones, the call has
\* returned True with exactly N queries issued; the initial lookup (N = 1)
\* never returns True, so a call that returns True has issued at least 2.
C5_ExactlyNQueriesFromLoop ==
  /\ (firstActiveQ >= 2 /\ ~lastResp.error) =>
        (waitReturned /\ waitResult /\ queries = firstActiveQ)
  /\ (waitReturned /\ waitResult) => queries >= 2

C5_Witness ==
  firstActiveQ = max_retries /\ waitReturned /\ waitResult

\* C6 as stated: a call that only ever saw PROCESSING without error returns
\* False after exactly max_retries client.files.get calls.
C6_TimeoutAfterMaxRetriesQueries ==
  (procOnly /\ queries >= 1 /\ waitReturned) =>
     (~waitResult /\ queries = max_retries)

\* C6 amended: such a call returns False after exactly max_retries loop
\* polls, which with the initial lookup are max_retries + 1
\* client.files.get calls, and no call issues more.
C6_TimeoutAfterMaxRetriesPolls ==
  /\ (procOnly /\ queries >= 1 /\ waitReturned) =>
        (~waitResult /\ queries = max_retries + 1 /\ sleeps = max_retries)
  /\ queries <= max_retries + 1

C6_Witness ==
  procOnly /\ waitReturned /\ queries = max_retries + 1

\* C7 as stated: a lookup that raises does not end the call: no call has
\* returned right after a raising lookup while attempts of the budget remain.
C7_RaisedLookupNeverEndsCall ==
  ~(waitReturned /\ lastResp.kind = "raise" /\ attempt < max_retries)

\* C7 amended: a lookup that raises in a loop attempt does not end the call,
\* is followed by one sleep and uses up its attempt, and a later loop lookup
\* reporting ACTIVE without error makes the call return True.  (A raise of
\* the initial lookup ends the call with False.)
C7_LoopRaiseIsTransient ==
  /\ (lastResp.kind = "raise" /\ queries >= 2) =>
        \/ pc = "wait_sleep" /\ ~waitReturned /\ sleeps = queries - 2
        \/ /\ sleeps = queries - 1
           /\ attempt = queries - 1
           /\ waitReturned => (attempt = max_retries /\ ~waitResult)
  /\ (raisedLoop /\ lastResp.kind = "ok" /\ lastResp.state = "ACTIVE"
        /\ ~lastResp.error) => (waitReturned /\ waitResult)
  /\ queries <= max_retries + 1

C7_Witness ==
  raisedLoop /\ waitReturned /\ waitResult /\ lastResp.state = "ACTIVE"

StageOrder == <<"ingest", "upload", "wait", "generate", "agent">>

Invoked(stage) == \E i \in 1..Len(stages) : stages[i] = stage

\* C8: the stages invoked are a prefix of ingest, upload, wait, generate,
\* agent (so each at most once, in that order); generate_content is invoked
\* only after the poll returned True, the agent only after generate_content
\* succeeded.
C8_StagesInOrder ==
  /\ Len(stages) <= Len(StageOrder)
  /\ \A i \in 1..Len(stages) : stages[i] = StageOrder[i]
  /\ Invoked("generate") => (waitReturned /\ waitResult)
  /\ Invoked("agent") => genOk

C8_Witness ==
  stages = StageOrder /\ pc = "responded"

\* C9: a request whose generate_content succeeded and whose browser agent
\* run raised ends with a 500-class response.
C9_AgentErrorIs500 ==
  (pc = "responded" /\ fault = "agent") => (genOk /\ status \in ServerError)

C9_Witness ==
  pc = "responded" /\ fault = "agent" /\ genOk

C11_MainTempFileRemoved ==
  (mpc = "responded" /\ mFileCreated
     /\ mFault \in {"none", "generate", "execute"}) => ~mFileExists

\* C12: a call on a handle without a 'name' attribute has returned False
\* at once: no status query, no sleep, no attempt of the budget used.
C12_MissingNameReturnsAtOnce ==
  (Invoked("wait") /\ ~hasName) =>
     /\ waitReturned
     /\ ~waitResult
     /\ queries = 0
     /\ sleeps = 0
     /\ attempt = 0
     /\ lastResp = NoResp

C12_Witness ==
  Invoked("wait") /\ ~hasName /\ pc = "wait_returned"

\* C13: whatever the remote service answers, a started call of
\* wait_for_file_processing returns, and it never makes more than
\* max_retries loop attempts or more than max_retries sleeps.
C13_WaitTerminatesWithinBudget ==
  /\ [](/\ attempt <= max_retries
        /\ sleeps <= max_retries
        /\ queries <= max_retries + 1
        /\ (pc = "wait_loop" => attempt < max_retries))
  /\ (pc = "wait_start") ~> waitReturned

C13_Witness ==
  waitReturned /\ attempt = max_retries /\ sleeps = max_retries /\ raisedLoop

\* C14 as stated: a loop attempt whose status has state ACTIVE makes the
\* call return True at that attempt.
C14_ActiveReturnsTrue ==
  (lastResp.kind = "ok" /\ lastResp.state = "ACTIVE" /\ queries >= 2) =>
     (waitReturned /\ waitResult)

\* C14 amended: a loop attempt whose status has state ACTIVE and no error
\* attached makes the call return True at that attempt, with no later query
\* or sleep; with an error attached the call returns False at that attempt.
C14_ActiveWithoutErrorReturnsTrue ==
  (lastResp.kind = "ok" /\ lastResp.state = "ACTIVE" /\ queries >= 2) =>
     /\ waitReturned
     /\ waitResult = ~lastResp.error
     /\ sleeps = queries - 2
     /\ attempt = queries - 2

C14_Witness ==
  /\ lastResp.kind = "ok" /\ lastResp.state = "ACTIVE" /\ ~lastResp.error
  /\ queries >= 3
  /\ firstActiveQ = 0
  /\ waitReturned /\ waitResult

\* C15: a loop attempt that observed PROCESSING or an unrecognized state
\* (no error attached) does not end the call: one sleep follows, the attempt
\* is used up, and the call goes on to the next attempt, returning only
\* when that sleep was the last of the budget.
C15_OtherStateContinues ==
  (lastResp.kind = "ok" /\ lastResp.state \in {"PROCESSING", "UNKNOWN"}
     /\ ~lastResp.error /\ queries >= 2) =>
     \/ pc = "wait_sleep" /\ ~waitReturned /\ sleeps = queries - 2
          /\ attempt = queries - 2
     \/ /\ sleeps = queries - 1
        /\ attempt = queries - 1
        /\ waitReturned => (attempt = max_retries /\ ~waitResult)
        /\ ~waitReturned => pc = "wait_loop"

C15_Witness ==
  /\ lastResp.kind = "ok" /\ lastResp.state = "UNKNOWN" /\ ~lastResp.error
  /\ queries >= 2
  /\ pc = "wait_loop"
  /\ sleeps = queries - 1

\* C16: over a whole request of app.py, os.unlink is attempted at most once
\* and never on an absent file, so it never raises.
C16_UnlinkOnceNeverOnAbsentFile ==
  unlinkCalls <= 1 /\ ~unlinkRaised

\* C17: in both variants the automation delegate is started only after the
\* temporary file was deleted: the file never exists while the delegate is
\* about to run, running or done.
C17_DelegateOnlyAfterUnlink ==
  /\ (pc = "agent" \/ Invoked("agent")) => (fileCreated /\ ~fileExists)
  /\ (mpc = "execute" \/ mFault = "execute") =>
        (mFileCreated /\ ~mFileExists)
  /\ (mpc = "responded" /\ mStatus = 200) => ~mFileExists

C17_Witness ==
  /\ Invoked("agent") /\ fileCreated /\ unlinkCalls >= 1
  /\ mpc = "execute" /\ mFileCreated

\* C18: the call returns True exactly when its last status query was a
\* loop-attempt query that reported ACTIVE with no error attached; every
\* other exit returns False.
C18_TrueOnlyOnCleanActive ==
  waitReturned =>
     (waitResult <=> (/\ queries >= 2
                      /\ hasName
                      /\ lastResp.kind = "ok"
                      /\ lastResp.state = "ACTIVE"
                      /\ ~lastResp.error))

C18_Witness ==
  pc = "wait_returned" /\ waitResult /\ queries = 2 /\ sleeps = 0
====
